---- MODULE Spec2Model ----
(***************************************************************************)
(* Model of the price projection web application (src/src/app.py and       *)
(* src/src/predict.py): start-up load of the metro dataset, the index      *)
(* POST handler with its four get_prediction calls, the Excel export       *)
(* handler, and the pure helpers haversine, find_closest_metro and         *)
(* calculate_y_axis_range.                                                 *)
(*                                                                         *)
(* Python values are tagged: a float is [t |-> "float", num |-> n], a str  *)
(* is [t |-> "str", str |-> tokens]; a message is the sequence of the      *)
(* pieces its f-string concatenates.  Prices are whole numbers; the two    *)
(* results of calculate_y_axis_range are kept in tenths, the finest unit   *)
(* the function produces on whole inputs (10 ** -1 and 0.1 * v).           *)
(***************************************************************************)
EXTENDS Integers, Sequences, FiniteSets, TLC

VARIABLES
    csv,              \* data/metro_locations.csv: whether it exists, and its rows
    app,              \* "starting" while the module is imported, then "serving"
    metro_df,         \* the global DataFrame: rows [idx, name, latitude, longitude]
    fault,            \* the model directory: the one bad artifact file, if any
    artifacts,        \* the content of the artifact files (fixed per behaviour)
    current_year,     \* datetime.date.today().year
    pc,               \* position of the request being handled
    form_data,        \* index: the posted form
    closest_metro,    \* index: the row find_closest_metro returned
    base_df,          \* index: the base feature row
    years_to_predict, \* index: the four years
    predictions,      \* index: the list of get_prediction results
    iter_df,          \* index: the row passed to get_prediction (its input_df)
    projection_data,  \* index: what is handed to the template
    num_cols_to_scale,\* get_prediction: the loaded feature list
    processed_df,     \* get_prediction: the working copy
    models,           \* get_prediction: names of the base models loaded so far
    base_predictions, \* get_prediction: outputs of the base models so far
    excel,            \* download_excel: the last response
    trace,            \* history: events of the current get_prediction call
    meta_input,       \* history: the row handed to the meta model
    calls,            \* history: get_prediction calls made by the current request
    lookups,          \* history: find_closest_metro calls made by the current request
    first_failure,    \* history: message of the first failure of the current request
    posted_year,      \* history: the calendar year when the request was posted
    env_stable,       \* history: year and artifacts unchanged since the request was posted
    env_changes,      \* history: changes made to the model directory so far
    y_in,             \* pure helpers: the argument of the function applied
    y_out             \* pure helpers: its result

vars == <<csv, app, metro_df, fault, artifacts, current_year, pc, form_data,
          closest_metro, base_df, years_to_predict, predictions, iter_df,
          projection_data, num_cols_to_scale, processed_df, models,
          base_predictions, excel, trace, meta_input, calls, lookups,
          first_failure, posted_year, env_stable, env_changes, y_in, y_out>>

None == [t |-> "None"]
Float(n) == [t |-> "float", num |-> n]
Str(s) == [t |-> "str", str |-> s]

-----------------------------------------------------------------------------
(* Bounds of the model. *)

FirstYear == 2026
MaxTicks == 1
MaxEnvChanges == 1
MaxStore == 3
MaxPreds == 3

-----------------------------------------------------------------------------
(* haversine: fixed-point trigonometry on whole degrees 0..10.             *)

\* 10^6 * sin^2(d/2) for d = 0..10 degrees
Sin2Half == <<0, 76, 305, 685, 1218, 1903, 2739, 3727, 4866, 6156, 7596>>
\* 10^3 * cos(d) for d = 0..10 degrees
Cos1000 == <<1000, 1000, 999, 999, 998, 996, 995, 993, 990, 988, 985>>

EarthRadiusKm == 6371

Abs(x) == IF x < 0 THEN -x ELSE x

\* math.sqrt on whole numbers, by bisection
RECURSIVE ISqrtBetween(_, _, _)
ISqrtBetween(n, lo, hi) ==
    IF lo >= hi THEN lo
    ELSE LET mid == (lo + hi + 1) \div 2
         IN IF mid * mid <= n THEN ISqrtBetween(n, mid, hi)
            ELSE ISqrtBetween(n, lo, mid - 1)
ISqrt(n) == ISqrtBetween(n, 0, IF n < 40000 THEN n ELSE 40000)

\* asin(x) for x in units of 10^-4, by x + x^3/6 (x <= 0.2 on this grid)
Asin10000(x) == x + ((((x * x) \div 10000) * x) \div 10000) \div 6

\* distance in km between (lat1, lon1) and (lat2, lon2)
haversine(lon1, lat1, lon2, lat2) ==
    LET dlon == Abs(lon2 - lon1)
        dlat == Abs(lat2 - lat1)
        a == Sin2Half[dlat + 1]
             + ((((Cos1000[Abs(lat1) + 1] * Cos1000[Abs(lat2) + 1]) \div 1000)
                 * Sin2Half[dlon + 1]) \div 1000)
        c == 2 * Asin10000(ISqrt(a * 100))
    IN (c * EarthRadiusKm) \div 10000

-----------------------------------------------------------------------------
(* find_closest_metro *)

\* variant: a later row replaces the best on an equal distance
RECURSIVE IdxMinFromLast(_, _, _)
IdxMinFromLast(d, i, best) ==
    IF i > Len(d) THEN best
    ELSE IdxMinFromLast(d, i + 1, IF d[i] <= d[best] THEN i ELSE best)

\* distances.idxmin(): position of the first minimum, scanning in row order
RECURSIVE IdxMinFrom(_, _, _)
IdxMinFrom(d, i, best) ==
    IF i > Len(d) THEN best
    ELSE IdxMinFrom(d, i + 1, IF d[i] < d[best] THEN i ELSE best)
IdxMin(d) == IdxMinFrom(d, 2, 1)

find_closest_metro(df, user_lat, user_lon) ==
    IF df = <<>> THEN None
    ELSE LET distances == [i \in 1..Len(df) |->
                 haversine(user_lon, user_lat, df[i].longitude, df[i].latitude)]
         IN df[IdxMin(distances)]

-----------------------------------------------------------------------------
(* calculate_y_axis_range *)

RECURSIVE FloorLog10(_)
FloorLog10(n) == IF n < 10 THEN 0 ELSE 1 + FloorLog10(n \div 10)

RECURSIVE Pow10(_)
Pow10(k) == IF k = 0 THEN 1 ELSE 10 * Pow10(k - 1)

Raised(msg) == [raised |-> TRUE, exc |-> msg]
Returned(lo, hi) == [raised |-> FALSE, y_min10 |-> lo, y_max10 |-> hi]

TypeErrorCompare == <<"'<' not supported between instances of 'str' and 'float'">>
TypeErrorMultiply == <<"can't multiply sequence by non-int of type 'float'">>
TypeErrorReal == <<"must be real number, not str">>
ValueErrorDomain == <<"math domain error">>

Floats(p) == {i \in 1..Len(p) : p[i].t = "float"}
MinOf(p) == CHOOSE v \in {p[i].num : i \in 1..Len(p)} :
                \A i \in 1..Len(p) : v <= p[i].num
MaxOf(p) == CHOOSE v \in {p[i].num : i \in 1..Len(p)} :
                \A i \in 1..Len(p) : v >= p[i].num

\* math.floor(x / unit) * unit and math.ceil(x / unit) * unit, in tenths;
\* unit10 is the rounding unit in tenths
FloorTo(x, unit10) == ((10 * x) \div unit10) * unit10
\* variant: the maximum is rounded down as the minimum is
CeilToRoundsDown(x, unit10) == ((10 * x) \div unit10) * unit10
CeilTo(x, unit10) == (-((-(10 * x)) \div unit10)) * unit10

\* variant: the padding of a zero value is 10% of it as well
Padding10NoZeroCase(v) == Abs(v)
\* line 61: abs(min_val * 0.1) if min_val != 0 else 1, in tenths
Padding10(v) == IF v # 0 THEN Abs(v) ELSE 10

\* The numeric branch: p holds floats only.
YAxisNumeric(p) ==
    LET min_val == MinOf(p)
        max_val == MaxOf(p)
    IN IF min_val = max_val
       THEN LET padding10 == Padding10(min_val)
            IN Returned(10 * min_val - padding10, 10 * max_val + padding10)
       ELSE IF max_val <= 0 THEN Raised(ValueErrorDomain)
       ELSE LET order_of_magnitude == FloorLog10(max_val)
                rounding_unit10 == Pow10(order_of_magnitude)
                y_min == FloorTo(min_val, rounding_unit10)
                y_max == CeilTo(max_val, rounding_unit10)
            IN IF y_min = y_max
               THEN Returned(y_min - rounding_unit10, y_max + rounding_unit10)
               ELSE Returned(y_min, y_max)

\* variant: values that are not numbers are skipped
calculate_y_axis_range_lenient(p) ==
    IF Floats(p) = {} THEN Returned(0, 10)
    ELSE YAxisNumeric([i \in 1..Cardinality(Floats(p)) |->
             p[CHOOSE k \in Floats(p) : Cardinality({j \in Floats(p) : j < k}) = i - 1]])

\* A str among the values makes min(), the padding product or log10 raise.
calculate_y_axis_range(p) ==
    IF Floats(p) = 1..Len(p) THEN YAxisNumeric(p)
    ELSE IF Floats(p) # {} THEN Raised(TypeErrorCompare)
    ELSE IF \A i \in 1..Len(p) : p[i].str = p[1].str THEN Raised(TypeErrorMultiply)
    ELSE Raised(TypeErrorReal)

-----------------------------------------------------------------------------
(* The metro dataset and its load (app.py lines 24-32). *)

Cell(n) == [numeric |-> TRUE, v |-> n]
BadCell == [numeric |-> FALSE, v |-> 0]

\* pd.to_numeric(errors='coerce') and dropna: rows with a non-numeric
\* latitude or longitude are dropped, the others keep their row index
RECURSIVE DropNa(_, _)
DropNa(rows, i) ==
    IF i > Len(rows) THEN <<>>
    ELSE LET r == rows[i]
             rest == DropNa(rows, i + 1)
         IN IF r.latitude.numeric /\ r.longitude.numeric
            THEN <<[idx |-> i - 1, name |-> r.name,
                    latitude |-> r.latitude.v, longitude |-> r.longitude.v]>> \o rest
            ELSE rest

\* variant: rows that fail the coercion are kept
LoadMetroKeepsRows(file) ==
    IF file.exists
    THEN [i \in 1..Len(file.rows) |->
             [idx |-> i - 1, name |-> file.rows[i].name,
              latitude |-> file.rows[i].latitude.v,
              longitude |-> file.rows[i].longitude.v]]
    ELSE <<>>

\* the try block, and the except branch that leaves pd.DataFrame()
LoadMetro(file) == IF file.exists THEN DropNa(file.rows, 1) ELSE <<>>

-----------------------------------------------------------------------------
(* The model artifacts (predict.py). *)

Files == {"scaler.joblib", "scaled_features_list.joblib", "random_forest.joblib",
          "xgboost.joblib", "linear_reg.joblib", "meta_model.joblib"}
BaseModelNames == <<"random_forest", "xgboost", "linear_reg">>
ModelFile(name) == CASE name = "random_forest" -> "random_forest.joblib"
                     [] name = "xgboost" -> "xgboost.joblib"
                     [] name = "linear_reg" -> "linear_reg.joblib"
                     [] name = "meta_model" -> "meta_model.joblib"

NoFault == [file |-> "none", kind |-> "ok"]
Faults == {NoFault} \cup [file : Files, kind : {"missing", "corrupt"}]

resource_path(filename) == <<"model", filename>>

NoMsg == <<>>
FileNotFoundMsg(filename) ==
    <<"Error: A required model file was not found. Please check your 'model' directory. Missing file: ">>
        \o resource_path(filename)
UnexpectedMsg(filename) ==
    <<"An unexpected error occurred in prediction: ", "could not unpickle">>
        \o resource_path(filename) \o <<"Traceback">>

\* what joblib.load raises for a file, as the message get_prediction returns
LoadFailure(filename) ==
    IF fault.file # filename THEN NoMsg
    ELSE IF fault.kind = "missing" THEN FileNotFoundMsg(filename)
    ELSE UnexpectedMsg(filename)

\* the fitted scaler: transform centres each column
ScalerMean == [year |-> 2020, rooms_en |-> 1, price_index |-> 0,
               latitude_metro |-> 0, longitude_metro |-> 0]
ScalerTransform(col, x) == x - ScalerMean[col]

\* the fitted base regressors: feature_names_in_ and predict
BaseModel == [random_forest |-> [feature_names_in_ |-> <<"year", "rooms_en">>,
                                 coef |-> <<50, 20>>, intercept |-> 0],
              xgboost       |-> [feature_names_in_ |-> <<"year", "latitude_metro">>,
                                 coef |-> <<30, 1>>, intercept |-> 5],
              linear_reg    |-> [feature_names_in_ |-> <<"rooms_en", "year", "longitude_metro">>,
                                 coef |-> <<10, 20, 1>>, intercept |-> 0]]

RECURSIVE Dot(_, _, _, _)
Dot(coef, names, X, i) ==
    IF i > Len(names) THEN 0 ELSE coef[i] * X[names[i]] + Dot(coef, names, X, i + 1)

\* model.predict(X[model.feature_names_in_])[0]
ModelPredict(m, X) == m.intercept + Dot(m.coef, m.feature_names_in_, X, 1)

\* the artifact sets a model directory may hold: the scaled feature list
\* and the fitted meta regressor (feature_names_ and predict)
ArtifactSets ==
    { [cols |-> <<"year", "rooms_en">>,
       meta |-> [feature_names_in_ |-> <<"linear_reg", "random_forest", "xgboost">>,
                 coef |-> <<1, 2, 1>>, intercept |-> 900]],
      [cols |-> <<"year", "price_index">>,
       meta |-> [feature_names_in_ |-> <<"random_forest", "xgboost", "linear_reg">>,
                 coef |-> <<0, 0, 0>>, intercept |-> 100]],
      [cols |-> <<>>,
       meta |-> [feature_names_in_ |-> <<"xgboost", "linear_reg", "random_forest">>,
                 coef |-> <<-1, 0, 0>>, intercept |-> 0]] }

\* lines 35-37: every column the scaler expects is present, absent ones as 0
RECURSIVE FillMissing(_, _, _)
FillMissing(df, cols, i) ==
    IF i > Len(cols) THEN df
    ELSE FillMissing(IF cols[i] \in DOMAIN df THEN df ELSE (cols[i] :> 0) @@ df,
                     cols, i + 1)

InCols(c, cols) == \E i \in 1..Len(cols) : cols[i] = c

\* lines 33-41 on a copy of the row
ScaleRow(df, cols) ==
    LET filled == FillMissing(df, cols, 1)
    IN [c \in DOMAIN filled |->
           IF InCols(c, cols) THEN ScalerTransform(c, filled[c]) ELSE filled[c]]

\* lines 52-61 composed: the price get_prediction computes for a row
PredictRow(df, art) ==
    LET scaled == ScaleRow(df, art.cols)
        base == [n \in {BaseModelNames[i] : i \in 1..3} |->
                    ModelPredict(BaseModel[n], scaled)]
    IN ModelPredict(art.meta, base)

-----------------------------------------------------------------------------
(* str() and int() on the years. *)

DigitChars == <<"0", "1", "2", "3", "4", "5", "6", "7", "8", "9">>

RECURSIVE StrOfInt(_)
StrOfInt(n) == IF n < 10 THEN <<DigitChars[n + 1]>>
               ELSE StrOfInt(n \div 10) \o <<DigitChars[(n % 10) + 1]>>

DigitValue(ch) == CHOOSE d \in 0..9 : DigitChars[d + 1] = ch

RECURSIVE IntOfStr(_)
IntOfStr(s) == IF Len(s) = 0 THEN 0
               ELSE 10 * IntOfStr(SubSeq(s, 1, Len(s) - 1)) + DigitValue(s[Len(s)])

-----------------------------------------------------------------------------
(* Inputs. *)

P1 == [name |-> "P1", latitude |-> Cell(0), longitude |-> Cell(0)]
P2 == [name |-> "P2", latitude |-> Cell(10), longitude |-> Cell(10)]
BadLat == [name |-> "P3", latitude |-> BadCell, longitude |-> Cell(1)]
BadLon == [name |-> "P4", latitude |-> Cell(1), longitude |-> BadCell]

CsvFiles == { [exists |-> FALSE, rows |-> <<>>],
              [exists |-> TRUE, rows |-> <<BadLat, BadLon>>],
              [exists |-> TRUE, rows |-> <<P1, P2>>],
              [exists |-> TRUE, rows |-> <<BadLat, P2, P1>>] }

Queries == { [latitude |-> Cell(1), longitude |-> Cell(1), rooms |-> 1],
             [latitude |-> Cell(10), longitude |-> Cell(10), rooms |-> 2],
             [latitude |-> BadCell, longitude |-> Cell(1), rooms |-> 1] }

-----------------------------------------------------------------------------
(* State groups. *)

envVars == <<csv, app, metro_df, fault, artifacts, current_year, env_changes>>
indexVars == <<form_data, closest_metro, base_df, years_to_predict, predictions,
               iter_df, projection_data>>
gpVars == <<num_cols_to_scale, processed_df, models, base_predictions>>
histVars == <<trace, meta_input, calls, lookups, first_failure, posted_year>>
helperVars == <<y_in, y_out>>

InitRequest ==
    /\ pc = "idle"
    /\ form_data = None /\ closest_metro = None /\ base_df = None
    /\ years_to_predict = <<>> /\ predictions = <<>> /\ iter_df = None
    /\ projection_data = None
    /\ num_cols_to_scale = <<>> /\ processed_df = None /\ models = <<>>
    /\ base_predictions = <<>>
    /\ excel = None
    /\ trace = <<>> /\ meta_input = None /\ calls = 0 /\ lookups = 0
    /\ first_failure = NoMsg /\ posted_year = 0 /\ env_stable = TRUE
    /\ env_changes = 0

Init ==
    /\ csv \in CsvFiles
    /\ app = "starting"
    /\ metro_df = <<>>
    /\ fault \in Faults
    /\ artifacts \in ArtifactSets
    /\ current_year = FirstYear
    /\ InitRequest
    /\ y_in = None /\ y_out = None

-----------------------------------------------------------------------------
(* Start-up: app.py lines 24-32. *)

Load ==
    /\ app = "starting"
    /\ metro_df' = LoadMetro(csv)
    /\ app' = "serving"
    /\ UNCHANGED <<csv, fault, artifacts, current_year, env_changes, pc, indexVars,
                   gpVars, histVars, excel, env_stable, helperVars>>

-----------------------------------------------------------------------------
(* The environment: the model directory and the calendar. *)

Break(f, kind) ==
    /\ app = "serving" /\ fault = NoFault /\ env_changes < MaxEnvChanges
    /\ fault' = [file |-> f, kind |-> kind]
    /\ env_changes' = env_changes + 1
    /\ env_stable' = FALSE
    /\ UNCHANGED <<csv, app, metro_df, artifacts, current_year, pc, indexVars,
                   gpVars, histVars, excel, helperVars>>

Repair ==
    /\ app = "serving" /\ fault # NoFault /\ env_changes < MaxEnvChanges
    /\ fault' = NoFault
    /\ env_changes' = env_changes + 1
    /\ env_stable' = FALSE
    /\ UNCHANGED <<csv, app, metro_df, artifacts, current_year, pc, indexVars,
                   gpVars, histVars, excel, helperVars>>

Tick ==
    /\ app = "serving" /\ current_year < FirstYear + MaxTicks
    /\ current_year' = current_year + 1
    /\ env_stable' = FALSE
    /\ UNCHANGED <<csv, app, metro_df, fault, artifacts, env_changes, pc, indexVars,
                   gpVars, histVars, excel, helperVars>>

-----------------------------------------------------------------------------
(* index, POST: app.py lines 82-127. *)

ErrorData(msg) == [t |-> "error", error |-> <<"Error: ">> \o msg]

CouldNotFind == <<"Could not find closest metro. Check data file.">>
CouldNotConvert == <<"could not convert string to float">>

\* lines 96-104
BaseRow(q, closest) ==
    [area_name_en |-> closest.name, rooms_en |-> q.rooms,
     latitude |-> q.latitude.v, longitude |-> q.longitude.v,
     latitude_metro |-> closest.latitude, longitude_metro |-> closest.longitude]

\* variant: the window starts at the year after the current one
YearsAfterCurrent(year) == [i \in 1..4 |-> year + i]

\* line 108
YearsToPredict(year) == [i \in 1..4 |-> year + i - 1]

\* lines 112-113
IterRow(df, year) == ("year" :> year) @@ df

\* line 120
Labels(years) == [i \in 1..Len(years) |-> StrOfInt(years[i])]

\* the locals of a request that has returned
RequestOver ==
    /\ pc' = "idle"
    /\ closest_metro' = None /\ base_df' = None /\ years_to_predict' = <<>>
    /\ predictions' = <<>> /\ iter_df' = None

\* lines 84-109, up to the first get_prediction call or the except branch
Post(q) ==
    /\ app = "serving" /\ pc = "idle"
    /\ form_data' = q
    /\ posted_year' = current_year /\ env_stable' = TRUE
    /\ excel' = None
    /\ calls' = 0 /\ trace' = <<>> /\ meta_input' = None
    /\ num_cols_to_scale' = <<>> /\ processed_df' = None /\ models' = <<>>
    /\ base_predictions' = <<>>
    /\ IF ~(q.latitude.numeric /\ q.longitude.numeric)
       THEN /\ projection_data' = ErrorData(CouldNotConvert)
            /\ lookups' = 0 /\ first_failure' = NoMsg
            /\ RequestOver
       ELSE LET closest == find_closest_metro(metro_df, q.latitude.v, q.longitude.v)
            IN /\ lookups' = 1
               /\ IF closest = None
                  THEN /\ projection_data' = ErrorData(CouldNotFind)
                       /\ first_failure' = CouldNotFind
                       /\ RequestOver
                  ELSE /\ projection_data' = None
                       /\ first_failure' = NoMsg
                       /\ closest_metro' = closest
                       /\ base_df' = BaseRow(q, closest)
                       /\ years_to_predict' = YearsToPredict(current_year)
                       /\ predictions' = <<>>
                       /\ iter_df' = None
                       /\ pc' = "loop"
    /\ UNCHANGED <<envVars, helperVars>>

\* lines 111-114: the next year's row, and the call of get_prediction
LoopNext ==
    /\ pc = "loop" /\ Len(predictions) < Len(years_to_predict)
    /\ iter_df' = IterRow(base_df, years_to_predict[Len(predictions) + 1])
    /\ calls' = calls + 1
    /\ trace' = <<>> /\ meta_input' = None
    /\ num_cols_to_scale' = <<>> /\ processed_df' = None /\ models' = <<>>
    /\ base_predictions' = <<>>
    /\ pc' = "gp_scaler"
    /\ UNCHANGED <<envVars, form_data, closest_metro, base_df, years_to_predict,
                   predictions, projection_data, excel, lookups, first_failure,
                   posted_year, env_stable, helperVars>>

\* lines 117-127: the range, and the response or the except branch
Finish ==
    /\ pc = "loop" /\ Len(predictions) = Len(years_to_predict)
    /\ LET r == calculate_y_axis_range(predictions)
       IN projection_data' =
              IF r.raised THEN ErrorData(r.exc)
              ELSE [t |-> "projection", labels |-> Labels(years_to_predict),
                    values |-> predictions,
                    y_min10 |-> r.y_min10, y_max10 |-> r.y_max10]
    /\ RequestOver
    /\ UNCHANGED <<envVars, form_data, gpVars, histVars, excel, env_stable, helperVars>>

-----------------------------------------------------------------------------
(* get_prediction(iter_df, raw_output=True): predict.py lines 24-76. *)

Event(ev, what) == [ev |-> ev, what |-> what]

GpPcs == {"gp_scaler", "gp_features", "gp_scale", "gp_models", "gp_meta",
          "gp_base_predict", "gp_meta_predict"}

\* lines 68-76, and the append of line 115 of app.py: the message is returned
GpReturnError(msg) ==
    /\ predictions' = Append(predictions, Str(msg))
    /\ first_failure' = IF first_failure = NoMsg THEN msg ELSE first_failure
    /\ trace' = Append(trace, Event("return", "error"))
    /\ pc' = "loop"

\* joblib.load(resource_path(filename)): the file is read, or the call returns
GpLoad(filename, next) ==
    IF LoadFailure(filename) # NoMsg
    THEN GpReturnError(LoadFailure(filename))
    ELSE /\ trace' = Append(trace, Event("load", filename))
         /\ pc' = next
         /\ UNCHANGED <<predictions, first_failure>>

\* line 26
GpLoadScaler ==
    /\ pc = "gp_scaler"
    /\ GpLoad("scaler.joblib", "gp_features")
    /\ UNCHANGED <<envVars, form_data, closest_metro, base_df, years_to_predict,
                   iter_df, projection_data, gpVars, excel, meta_input, calls,
                   lookups, posted_year, env_stable, helperVars>>

\* line 27
GpLoadFeatures ==
    /\ pc = "gp_features"
    /\ GpLoad("scaled_features_list.joblib", "gp_scale")
    /\ num_cols_to_scale' = IF LoadFailure("scaled_features_list.joblib") = NoMsg
                            THEN artifacts.cols ELSE num_cols_to_scale
    /\ UNCHANGED <<envVars, form_data, closest_metro, base_df, years_to_predict,
                   iter_df, projection_data, processed_df, models, base_predictions,
                   excel, meta_input, calls, lookups, posted_year, env_stable,
                   helperVars>>

RECURSIVE FillEvents(_, _, _)
FillEvents(df, cols, i) ==
    IF i > Len(cols) THEN <<>>
    ELSE (IF cols[i] \in DOMAIN df THEN <<>> ELSE <<Event("fill", cols[i])>>)
         \o FillEvents(df, cols, i + 1)

ScaleEvents(df, cols) ==
    IF cols = <<>> THEN <<>>
    ELSE FillEvents(df, cols, 1) \o <<Event("scale", "scaler.joblib")>>

\* variant: no copy is taken, the caller's row is scaled in place
GpScaleInPlace ==
    /\ pc = "gp_scale"
    /\ processed_df' = ScaleRow(iter_df, num_cols_to_scale)
    /\ iter_df' = ScaleRow(iter_df, num_cols_to_scale)
    /\ trace' = trace \o ScaleEvents(iter_df, num_cols_to_scale)
    /\ pc' = "gp_models"
    /\ UNCHANGED <<envVars, form_data, closest_metro, base_df, years_to_predict,
                   predictions, projection_data, num_cols_to_scale, models,
                   base_predictions, excel, meta_input, calls, lookups,
                   first_failure, posted_year, env_stable, helperVars>>

\* lines 30-41: the copy is scaled, the caller's row is left alone
GpScale ==
    /\ pc = "gp_scale"
    /\ processed_df' = ScaleRow(iter_df, num_cols_to_scale)
    /\ trace' = trace \o ScaleEvents(iter_df, num_cols_to_scale)
    /\ pc' = "gp_models"
    /\ UNCHANGED <<envVars, indexVars, num_cols_to_scale, models, base_predictions,
                   excel, meta_input, calls, lookups, first_failure, posted_year,
                   env_stable, helperVars>>

\* lines 46-47, one turn of the loop
GpLoadBase ==
    /\ pc = "gp_models"
    /\ LET model_name == BaseModelNames[Len(models) + 1]
       IN /\ GpLoad(ModelFile(model_name),
                    IF Len(models) + 1 = Len(BaseModelNames) THEN "gp_meta"
                    ELSE "gp_models")
          /\ models' = IF LoadFailure(ModelFile(model_name)) = NoMsg
                       THEN Append(models, model_name) ELSE models
    /\ UNCHANGED <<envVars, form_data, closest_metro, base_df, years_to_predict,
                   iter_df, projection_data, num_cols_to_scale, processed_df,
                   base_predictions, excel, meta_input, calls, lookups, posted_year,
                   env_stable, helperVars>>

\* line 50
GpLoadMeta ==
    /\ pc = "gp_meta"
    /\ GpLoad("meta_model.joblib", "gp_base_predict")
    /\ UNCHANGED <<envVars, form_data, closest_metro, base_df, years_to_predict,
                   iter_df, projection_data, gpVars, excel, meta_input, calls,
                   lookups, posted_year, env_stable, helperVars>>

\* lines 54-57, one turn of the loop over models.items()
GpPredictBase ==
    /\ pc = "gp_base_predict"
    /\ LET model_name == models[Cardinality(DOMAIN base_predictions) + 1]
           pred == ModelPredict(BaseModel[model_name], processed_df)
       IN /\ base_predictions' = (model_name :> pred) @@ base_predictions
          /\ trace' = Append(trace, Event("predict", model_name))
          /\ pc' = IF Cardinality(DOMAIN base_predictions) + 1 = Len(models)
                   THEN "gp_meta_predict" ELSE "gp_base_predict"
    /\ UNCHANGED <<envVars, indexVars, num_cols_to_scale, processed_df, models,
                   excel, meta_input, calls, lookups, first_failure, posted_year,
                   env_stable, helperVars>>

\* variant: the base outputs are taken by position, not by name
MetaFeaturesByPosition(base, meta) ==
    [n \in {meta.feature_names_in_[i] : i \in 1..Len(meta.feature_names_in_)} |->
        base[BaseModelNames[CHOOSE i \in 1..Len(meta.feature_names_in_) :
                                meta.feature_names_in_[i] = n]]]

\* line 61: meta_features_df[meta_model.feature_names_]
MetaFeatures(base, meta) ==
    [n \in {meta.feature_names_in_[i] : i \in 1..Len(meta.feature_names_in_)} |-> base[n]]

\* lines 60-64, and the append of line 115 of app.py
GpPredictMeta ==
    /\ pc = "gp_meta_predict"
    /\ LET X == MetaFeatures(base_predictions, artifacts.meta)
           final_prediction == ModelPredict(artifacts.meta, X)
       IN /\ meta_input' = X
          /\ predictions' = Append(predictions, Float(final_prediction))
    /\ trace' = trace \o <<Event("predict", "meta_model"), Event("return", "price")>>
    /\ pc' = "loop"
    /\ UNCHANGED <<envVars, form_data, closest_metro, base_df, years_to_predict,
                   iter_df, projection_data, gpVars, excel, calls, lookups,
                   first_failure, posted_year, env_stable, helperVars>>

-----------------------------------------------------------------------------
(* download_excel: app.py lines 137-163. *)

\* the posted projection_data field: absent, or what the page was given
ExportPayloads == {None} \cup (IF projection_data = None THEN {} ELSE {projection_data})

DownloadExcel(data) ==
    /\ app = "serving" /\ pc = "idle"
    /\ excel' = IF data = None
                THEN [status |-> 400, body |-> <<"Error: No data received.">>]
                ELSE IF data.t = "projection"
                THEN [status |-> 200,
                      rows |-> [i \in 1..Len(data.labels) |->
                                   <<data.labels[i], data.values[i]>>]]
                ELSE [status |-> 500, body |-> <<"'labels'">>]
    /\ UNCHANGED <<envVars, pc, indexVars, gpVars, histVars, env_stable, helperVars>>

-----------------------------------------------------------------------------

Next ==
    \/ Load
    \/ \E f \in Files, kind \in {"missing", "corrupt"} : Break(f, kind)
    \/ Repair
    \/ Tick
    \/ \E q \in Queries : Post(q)
    \/ LoopNext
    \/ GpLoadScaler
    \/ GpLoadFeatures
    \/ GpScale
    \/ GpLoadBase
    \/ GpLoadMeta
    \/ GpPredictBase
    \/ GpPredictMeta
    \/ Finish
    \/ \E data \in ExportPayloads : DownloadExcel(data)

Spec == Init /\ [][Next]_vars

-----------------------------------------------------------------------------
(* The pure helpers applied to inputs drawn from bounded sets. *)

Degrees == {0, 1, 10}
StationNames == <<"P1", "P2", "P3", "P4", "P5", "P6">>

RECURSIVE SeqsUpTo(_, _)
SeqsUpTo(S, n) ==
    IF n = 0 THEN {<<>>}
    ELSE LET shorter == SeqsUpTo(S, n - 1)
         IN shorter \cup {Append(q, x) : q \in {r \in shorter : Len(r) = n - 1}, x \in S}

\* a loaded DataFrame: row i has index i - 1 and its own name
AsStore(points) ==
    [i \in 1..Len(points) |->
        [idx |-> i - 1, name |-> StationNames[i],
         latitude |-> points[i][1], longitude |-> points[i][2]]]

Stores == {AsStore(points) : points \in SeqsUpTo(Degrees \X Degrees, MaxStore)}

PriceValues == {-100, -5, 0, 3, 10, 99, 100, 950, 1000, 1050, 12345}
PriceLists == {p \in SeqsUpTo({Float(v) : v \in PriceValues}, MaxPreds) : p # <<>>}

InitHelper ==
    /\ csv = [exists |-> FALSE, rows |-> <<>>]
    /\ app = "helper"
    /\ metro_df = <<>>
    /\ fault = NoFault
    /\ artifacts = None
    /\ current_year = FirstYear
    /\ InitRequest
    /\ y_out = None

InitNearest ==
    /\ InitHelper
    /\ y_in \in [df : Stores, lat : Degrees, lon : Degrees]

ApplyNearest ==
    /\ y_out = None
    /\ y_out' = [result |-> find_closest_metro(y_in.df, y_in.lat, y_in.lon)]
    /\ UNCHANGED <<envVars, pc, indexVars, gpVars, histVars, excel, env_stable, y_in>>

SpecNearest == InitNearest /\ [][ApplyNearest]_vars

InitYAxis ==
    /\ InitHelper
    /\ y_in \in PriceLists

ApplyYAxis ==
    /\ y_out = None
    /\ y_out' = calculate_y_axis_range(y_in)
    /\ UNCHANGED <<envVars, pc, indexVars, gpVars, histVars, excel, env_stable, y_in>>

SpecYAxis == InitYAxis /\ [][ApplyYAxis]_vars

-----------------------------------------------------------------------------
(* Properties. *)

Responded == pc = "idle" /\ projection_data # None
IsProjection == projection_data.t = "projection"
IsError == projection_data.t = "error"
Mentions(msg, word) == \E i \in 1..Len(msg) : msg[i] = word
NearestOf(q) == find_closest_metro(metro_df, q.latitude.v, q.longitude.v)

\* C1: a projection is all-or-nothing. Once the lookup or an inference call of a
\* request has failed, the response is the error form and carries no labels,
\* values, y_min or y_max; a response of the projection form holds 4 values, all
\* numbers returned by inference calls of a request in which no call failed.
C1_AllOrNothing ==
    /\ (Responded /\ first_failure # NoMsg) =>
           (IsError /\ DOMAIN projection_data = {"t", "error"})
    /\ (projection_data # None /\ IsProjection) =>
           /\ Len(projection_data.values) = 4
           /\ \A i \in 1..4 : projection_data.values[i].t = "float"
           /\ calls = 4
           /\ first_failure = NoMsg

C1_Witness ==
    /\ Responded /\ IsError
    /\ calls = 4
    /\ first_failure # NoMsg
    /\ env_changes = 1

\* C2: when one artifact file is missing throughout a request that reaches
\* inference, the error returned to the caller names that file.
C2_MissingFileNamed ==
    (Responded /\ env_stable /\ calls >= 1 /\ fault.kind = "missing") =>
        (IsError /\ Mentions(projection_data.error, fault.file))

\* C3: a failure is surfaced immediately. After the lookup or an inference call
\* of a request has failed, no further inference call runs in that request, and
\* the error returned is that first failure.
C3_FailureSurfacedImmediately ==
    /\ first_failure # NoMsg => pc \notin GpPcs
    /\ (Responded /\ first_failure # NoMsg) =>
           projection_data = ErrorData(first_failure)

DecimalDigits(s) == \A i \in 1..Len(s) : \E d \in 1..10 : DigitChars[d] = s[i]

\* C4: a successful projection has exactly 4 labels, the decimal strings of the
\* 4 consecutive years starting at the year of the request, and exactly 4
\* values, values[i] being the inference result for the year labels[i] with the
\* nearest point of the query, which was looked up once.
C4_LabelsAndValues ==
    (projection_data # None /\ IsProjection) =>
        /\ Len(projection_data.labels) = 4
        /\ Len(projection_data.values) = 4
        /\ lookups = 1
        /\ \A i \in 1..4 :
              LET label == projection_data.labels[i]
              IN /\ Len(label) > 0 /\ DecimalDigits(label) /\ label[1] # "0"
                 /\ IntOfStr(label) = posted_year + i - 1
                 /\ projection_data.values[i] =
                        Float(PredictRow(IterRow(BaseRow(form_data, NearestOf(form_data)),
                                                 IntOfStr(label)),
                                         artifacts))

C4_Witness ==
    /\ Responded /\ IsProjection
    /\ projection_data.values[1] # projection_data.values[4]
    /\ posted_year = FirstYear + 1

NoValidRows == \A i \in 1..Len(csv.rows) :
                   ~(csv.rows[i].latitude.numeric /\ csv.rows[i].longitude.numeric)

\* C5 as stated: start-up never completes with an empty store that serves
\* requests (loading fails when the path is missing or no row is valid).
C5_LoadFailsOnEmptyData ==
    app = "serving" => metro_df # <<>>

\* C5 as amended: with the path missing or no valid row, start-up completes with
\* an empty store; no request then reaches inference or returns a projection,
\* and a request with numeric coordinates gets the could-not-find error.
C5_EmptyStoreServesErrors ==
    (app = "serving" /\ (~csv.exists \/ NoValidRows)) =>
        /\ metro_df = <<>>
        /\ pc = "idle" /\ calls = 0
        /\ projection_data \in {None, ErrorData(CouldNotFind), ErrorData(CouldNotConvert)}
        /\ (projection_data # None /\ form_data.latitude.numeric
                /\ form_data.longitude.numeric) =>
               projection_data = ErrorData(CouldNotFind)

C5_Witness ==
    /\ app = "serving" /\ csv.exists /\ csv.rows # <<>> /\ NoValidRows
    /\ metro_df = <<>>
    /\ projection_data = ErrorData(CouldNotFind)

DistanceTo(i) ==
    haversine(y_in.lon, y_in.lat, y_in.df[i].longitude, y_in.df[i].latitude)

\* C6: on a non-empty store the lookup returns a stored point at minimal
\* distance from the query, the first such point in row order; with P1(0,0)
\* and P2(10,10) a query at (1,1) returns P1.
C6_NearestIsFirstMinimum ==
    (y_out # None /\ y_in.df # <<>>) =>
        /\ \E i \in 1..Len(y_in.df) :
              /\ y_out.result = y_in.df[i]
              /\ \A j \in 1..Len(y_in.df) : DistanceTo(i) <= DistanceTo(j)
              /\ \A j \in 1..(i - 1) : DistanceTo(j) > DistanceTo(i)
        /\ (y_in.df = AsStore(<<(<<0, 0>>), (<<10, 10>>)>>) /\ y_in.lat = 1 /\ y_in.lon = 1)
               => y_out.result.name = "P1"

C6_Witness ==
    /\ y_out # None
    /\ Len(y_in.df) = 3
    /\ y_out.result = y_in.df[2]
    /\ DistanceTo(2) = DistanceTo(3)
    /\ DistanceTo(2) < DistanceTo(1)

Nums(p) == {p[i].num : i \in 1..Len(p)}
AllEqual(p) == Cardinality(Nums(p)) = 1
Least(p) == CHOOSE v \in Nums(p) : \A w \in Nums(p) : v <= w
Greatest(p) == CHOOSE v \in Nums(p) : \A w \in Nums(p) : v >= w
\* the unit in tenths: 10 ^ floor(log10(m)), written as the power of ten with
\* unit <= m < 10 * unit
UnitInTenths(m) == CHOOSE u \in {Pow10(k) : k \in 0..8} : u <= m /\ m < 10 * u

C8_EqualValuesPadded ==
    (y_out # None /\ AllEqual(y_in)) =>
        LET v == y_in[1].num
            p10 == IF v = 0 THEN 10 ELSE IF v < 0 THEN -v ELSE v
        IN /\ ~y_out.raised
           /\ y_out.y_min10 = 10 * v - p10
           /\ y_out.y_max10 = 10 * v + p10
           /\ (v = 100 => (y_out.y_min10 = 900 /\ y_out.y_max10 = 1100))
           /\ (v = 0 => (y_out.y_min10 = -10 /\ y_out.y_max10 = 10))

C8_Witness ==
    /\ y_in = <<Float(0), Float(0), Float(0)>>
    /\ y_out = Returned(-10, 10)

Positions(e) == {i \in 1..Len(trace) : trace[i] = e}
Once(e) == Cardinality(Positions(e)) = 1
Precedes(e1, e2) == \A i \in Positions(e1), j \in Positions(e2) : i < j
LoadOf(f) == Event("load", f)
PredictOf(n) == Event("predict", n)
BaseNames == {"random_forest", "xgboost", "linear_reg"}
BaseFiles == {"random_forest.joblib", "xgboost.joblib", "linear_reg.joblib"}
\* get_prediction has just returned a price to the loop of index
PricedCall == pc = "loop" /\ trace # <<>> /\ trace[Len(trace)] = Event("return", "price")
Scaling == Event("scale", "scaler.joblib")
\* the row with every listed column centred, an absent one taken as 0
ScaledAsListed(df, cols) ==
    [c \in DOMAIN df \cup {cols[i] : i \in 1..Len(cols)} |->
        IF \E i \in 1..Len(cols) : cols[i] = c
        THEN (IF c \in DOMAIN df THEN df[c] ELSE 0) - ScalerMean[c]
        ELSE df[c]]

\* C9: in an inference call that returns a price, the scaler and the feature
\* list are loaded and the row scaled (absent listed columns first filled with
\* 0), then the three base regressors and the meta regressor are loaded, then
\* each base regressor predicts exactly once on the scaled row, then the meta
\* regressor predicts exactly once on exactly those three outputs.
C9_InferenceOrder ==
    PricedCall =>
        /\ \A f \in Files : Once(LoadOf(f))
        /\ \A n \in BaseNames \cup {"meta_model"} : Once(PredictOf(n))
        /\ Precedes(LoadOf("scaler.joblib"), Scaling)
        /\ Precedes(LoadOf("scaled_features_list.joblib"), Scaling)
        /\ Cardinality(Positions(Scaling)) = IF artifacts.cols = <<>> THEN 0 ELSE 1
        /\ \A i \in 1..Len(artifacts.cols) :
              artifacts.cols[i] \notin DOMAIN iter_df =>
                  /\ Once(Event("fill", artifacts.cols[i]))
                  /\ Precedes(Event("fill", artifacts.cols[i]), Scaling)
        /\ \A f \in BaseFiles \cup {"meta_model.joblib"} :
              /\ Precedes(Scaling, LoadOf(f))
              /\ Precedes(LoadOf("scaler.joblib"), LoadOf(f))
              /\ Precedes(LoadOf("scaled_features_list.joblib"), LoadOf(f))
        /\ \A f \in Files, n \in BaseNames \cup {"meta_model"} :
              Precedes(LoadOf(f), PredictOf(n))
        /\ \A n \in BaseNames : Precedes(PredictOf(n), PredictOf("meta_model"))
        /\ processed_df = ScaledAsListed(iter_df, artifacts.cols)
        /\ DOMAIN base_predictions = BaseNames
        /\ \A n \in BaseNames :
              base_predictions[n] = ModelPredict(BaseModel[n], processed_df)
        /\ DOMAIN meta_input = BaseNames
        /\ \A n \in BaseNames : meta_input[n] = base_predictions[n]
        /\ predictions[Len(predictions)] = Float(ModelPredict(artifacts.meta, meta_input))

C9_Witness ==
    /\ PricedCall
    /\ Positions(Event("fill", "price_index")) # {}
    /\ Len(predictions) = 2

\* the response to a query given the store, the artifacts and the year
ResponseFor(q, store, bad, art, year) ==
    IF ~(q.latitude.numeric /\ q.longitude.numeric) THEN ErrorData(CouldNotConvert)
    ELSE IF store = <<>> THEN ErrorData(CouldNotFind)
    ELSE IF bad # NoFault THEN ErrorData(TypeErrorMultiply)
    ELSE LET nearest == find_closest_metro(store, q.latitude.v, q.longitude.v)
             values == [i \in 1..4 |->
                 Float(PredictRow(IterRow(BaseRow(q, nearest), year + i - 1), art))]
             r == calculate_y_axis_range(values)
         IN IF r.raised THEN ErrorData(r.exc)
            ELSE [t |-> "projection",
                  labels |-> [i \in 1..4 |-> StrOfInt(year + i - 1)],
                  values |-> values, y_min10 |-> r.y_min10, y_max10 |-> r.y_max10]

\* C10: requests share no mutable state. Whatever requests were handled, the
\* store holds exactly the points it held after load; an inference call leaves
\* the row passed to it as it was built; and the response to a request during
\* which artifacts and year stayed the same is the one its query, the store,
\* the artifacts and the year determine.
C10_Stateless ==
    /\ app = "serving" => metro_df = LoadMetro(csv)
    /\ (pc \in GpPcs \cup {"loop"} /\ calls >= 1) =>
           iter_df = IterRow(BaseRow(form_data, closest_metro), years_to_predict[calls])
    /\ (Responded /\ env_stable) =>
           projection_data =
               ResponseFor(form_data, LoadMetro(csv), fault, artifacts, posted_year)

C10_Witness ==
    /\ Responded /\ IsProjection /\ env_stable
    /\ excel # None /\ excel.status = 200
    /\ env_changes = 1

====
